---- MODULE Spec2Model ----
(***************************************************************************)
(* A model of the credential pool (utils/server/KeyStore.ts) and of the    *)
(* streaming relay OpenAIStream (pages/api/models.ts, second half).        *)
(*                                                                         *)
(* Spec        the pool, used directly (getKey, deleteKey) by a small set  *)
(*             of concurrently handled requests; every await of the code   *)
(*             is a point where another request may run.                   *)
(* SequentialSpec  getKey calls made one after the other, no deleteKey.    *)
(* RelaySpec   the pool used through OpenAIStream's evict-and-retry step.  *)
(* StreamSpec  the re-framing of one upstream body into the output stream. *)
(***************************************************************************)
EXTENDS Integers, Sequences, FiniteSets, TLC

(***************************************************************************)
(* Bounds of the model.                                                    *)
(***************************************************************************)
MaxCalls    == 4    \* direct getKey/deleteKey calls made by all requests together
MaxLoads    == 3    \* loads issued against the credential source
MaxAttempts == 2    \* upstream calls of one relay that are answered invalid_api_key
MaxEvents   == 3    \* event-stream records of one upstream body
MaxChunk    == 3    \* bytes of one chunk of the upstream body

Procs    == {"p1", "p2"}       \* concurrently handled requests
KeyOrder == <<"k1", "k2">>     \* the keys a source may hold, in record order
Keys     == {KeyOrder[i] : i \in 1..Len(KeyOrder)}

NoKey       == ""              \* an unset environment variable / empty key argument
OverrideKey == "ko"            \* value of OPENAI_API_KEY when it is set
CallerKey   == "kc"            \* a key supplied by the caller of OpenAIStream

\* enum KeyType
HIGHEST == 0
GPT3    == 3
GPT4    == 4
KeyType == {HIGHEST, GPT3, GPT4}

Models == {"gpt-3.5-turbo", "gpt-4"}

NoCredentialsAvailable == "No keys available"
KeyServerNotConfigured == "Key server not configured"

Range(s) == {s[i] : i \in 1..Len(s)}

VARIABLES
    OPENAI_API_KEY,        \* process.env.OPENAI_API_KEY (NoKey when unset)
    keyServerConfigured,   \* OPENAI_API_KEY_SERVER && OPENAI_API_KEY_SERVER_AUTH
    source,                \* the credential source: key -> "gpt-3" | "gpt-4" | "absent"
    initialized,           \* KeyStore.initialized
    gpt3keys,              \* KeyStore.gpt3keys
    gpt4keys,              \* KeyStore.gpt4keys
    frame,                 \* per request: position and locals of the running call
    ev,                    \* what the last step did (observation only)
    loadCount,             \* loads issued against the source so far (observation only)
    deleteCalled,          \* some deleteKey request reached the key server (observation only)
    evicted,               \* keys whose deleteKey has returned true (observation only)
    calls,                 \* top-level calls made so far (observation only)
    freshEvict,            \* a deleteKey returned true and no getKey was invoked since
    events,                \* the records the upstream sends in its body (observation only)
    upstream,              \* bytes of res.body not yet read
    upstreamEnd,           \* how res.body ends: "eof" or "error" (transport error)
    stream,                \* the output ReadableStream, its controller and the parser;
                           \* delivered: the bytes the consumer has read from it
    started,               \* start(controller): "running", "returned" or "threw"
    cancelled              \* the consumer has cancelled the output stream

poolVars == <<initialized, gpt3keys, gpt4keys>>
envVars  == <<OPENAI_API_KEY, keyServerConfigured>>
streamVars == <<events, upstream, upstreamEnd, stream, started, cancelled>>

\* ev: op is the operation that acted, ctx its caller ("top", or the relay's
\* first acquisition or its retry), kind/val what it returned or threw, load
\* whether this getKey call loaded from the source, stale whether the key
\* returned had been evicted before the call was invoked, before the value of
\* initialized when the step began.  For deleteKey, stale tells whether the
\* key passed had already been evicted when the call was invoked; resp is the
\* answer of the upstream that the relay is handling ("none" outside of it).
NoEvent  == [op |-> "none", ctx |-> "none", type |-> HIGHEST,
             model |-> "none", kind |-> "none", val |-> NoKey, load |-> FALSE,
             stale |-> FALSE, before |-> FALSE, resp |-> "none"]

IdleFrame ==
    [pc |-> "idle", ctx |-> "top", type |-> HIGHEST, key |-> NoKey, model |-> "none",
     loaded |-> <<>>, success |-> FALSE, attempts |-> 0, since |-> {},
     resp |-> "none"]

\* A request that went through OpenAIStream has made its one call.
DoneFrame == [IdleFrame EXCEPT !.pc = "done"]

Event(op, p, f, kind, val, load) ==
    [op |-> op, ctx |-> f.ctx, type |-> f.type, model |-> f.model,
     kind |-> kind, val |-> val, load |-> load, stale |-> val \in f.since,
     before |-> initialized, resp |-> f.resp]

(***************************************************************************)
(* KeyStore.loadKeys and the credential source.                            *)
(***************************************************************************)
\* The JSON array the source answers with: one record per key it holds.
FileContent(src) ==
    LET present == SelectSeq(KeyOrder, LAMBDA k : src[k] # "absent")
    IN  [i \in 1..Len(present) |-> [key |-> present[i], type |-> src[present[i]]]]

\* loadKeys: every record whose type is not "gpt-3" becomes a GPT4 key.
loadKeys(src) ==
    LET content == FileContent(src)
    IN  [i \in 1..Len(content) |->
            [key  |-> content[i].key,
             type |-> IF content[i].type = "gpt-3" THEN GPT3 ELSE GPT4]]

\* getKey line 102: push every loaded key on the array of its tier.
KeysOf(loaded, isGpt4) ==
    LET sel == SelectSeq(loaded, LAMBDA r : (r.type = GPT4) = isGpt4)
    IN  [i \in 1..Len(sel) |-> sel[i].key]

pushLoaded3(loaded) == gpt3keys \o KeysOf(loaded, FALSE)
pushLoaded4(loaded) == gpt4keys \o KeysOf(loaded, TRUE)

\* selectKeys with the preference of HIGHEST reversed.
selectKeysStandardFirst(type, g3, g4) ==
    IF type = HIGHEST
    THEN (IF Len(g3) > 0 THEN g3 ELSE g4)
    ELSE (IF type = GPT3 /\ Len(g3) > 0 THEN g3 ELSE g4)

\* selectKeys without the fallback of GPT3 to the gpt-4 keys.
selectKeysNoFallback(type, g3, g4) ==
    IF type = HIGHEST
    THEN (IF Len(g4) > 0 THEN g4 ELSE g3)
    ELSE (IF type = GPT3 THEN g3 ELSE g4)

\* getKey lines 103-105: the array the key is drawn from.
selectKeys(type, g3, g4) ==
    IF type = HIGHEST
    THEN (IF Len(g4) > 0 THEN g4 ELSE g3)
    ELSE (IF type = GPT3 /\ Len(g3) > 0 THEN g3 ELSE g4)

\* OpenAIStream line 118.
keyTypeOf(model) == IF model = "gpt-4" THEN GPT4 ELSE GPT3

(***************************************************************************)
(* getKey.  A call either returns at once (override, or pool initialized)  *)
(* or issues a load and suspends at the await of line 102.                 *)
(***************************************************************************)
\* The value or error of getKey reaches its caller: a top-level caller keeps
\* it as its result; OpenAIStream either rejects with the error or issues the
\* upstream call with the key (lines 119-120 and 162-163).
getKeyReturn(p, f, kind, val, load) ==
    /\ frame' = [frame EXCEPT ![p] =
          IF f.ctx = "top" THEN IdleFrame
          ELSE IF kind = "error" THEN DoneFrame
          ELSE [f EXCEPT !.pc = "up_fetch", !.key = val, !.since = {},
                         !.resp = "none"]]
    /\ ev' = Event("getKey", p, f, kind, val, load)

\* getKey lines 103-108, run on the arrays g3, g4.
getKeySelect(p, f, g3, g4, load) ==
    LET keys == selectKeys(f.type, g3, g4) IN
    /\ gpt3keys' = g3
    /\ gpt4keys' = g4
    /\ IF Len(keys) = 0
       THEN /\ initialized' = initialized
            /\ getKeyReturn(p, f, "error", NoCredentialsAvailable, load)
       ELSE /\ initialized' = TRUE
            /\ \E k \in Range(keys) : getKeyReturn(p, f, "key", k, load)

\* getKey with the override test of line 100 placed after the load test.
getKeyLoadFirst(p, f0, type, ctx) ==
    LET f == [f0 EXCEPT !.type = type, !.ctx = ctx, !.since = evicted] IN
    /\ freshEvict' = FALSE
    /\ IF ~initialized
       THEN /\ loadCount < MaxLoads
            /\ loadCount' = loadCount + 1
            /\ UNCHANGED poolVars
            /\ frame' = [frame EXCEPT ![p] =
                  IF keyServerConfigured
                  THEN [f EXCEPT !.pc = "gk_fetch"]
                  ELSE [f EXCEPT !.pc = "gk_await", !.loaded = loadKeys(source)]]
            /\ ev' = Event("loadKeys", p, f, "none", NoKey, TRUE)
       ELSE IF OPENAI_API_KEY # NoKey
       THEN /\ UNCHANGED <<poolVars, loadCount>>
            /\ getKeyReturn(p, f, "key", OPENAI_API_KEY, FALSE)
       ELSE /\ loadCount' = loadCount
            /\ getKeySelect(p, f, gpt3keys, gpt4keys, FALSE)

\* getKey lines 99-102, up to the await.
getKey(p, f0, type, ctx) ==
    LET f == [f0 EXCEPT !.type = type, !.ctx = ctx, !.since = evicted] IN
    /\ freshEvict' = FALSE
    /\ IF OPENAI_API_KEY # NoKey
       THEN /\ UNCHANGED <<poolVars, loadCount>>
            /\ getKeyReturn(p, f, "key", OPENAI_API_KEY, FALSE)
       ELSE IF ~initialized
       THEN /\ loadCount < MaxLoads
            /\ loadCount' = loadCount + 1
            /\ UNCHANGED poolVars
            /\ frame' = [frame EXCEPT ![p] =
                  IF keyServerConfigured
                  THEN [f EXCEPT !.pc = "gk_fetch"]
                  ELSE [f EXCEPT !.pc = "gk_await", !.loaded = loadKeys(source)]]
            /\ ev' = Event("loadKeys", p, f, "none", NoKey, TRUE)
       ELSE /\ loadCount' = loadCount
            /\ getKeySelect(p, f, gpt3keys, gpt4keys, FALSE)

\* The key server answers POST /getKeys with what it holds at that moment.
KeyServerGetKeys(p) ==
    /\ UNCHANGED streamVars
    /\ frame[p].pc = "gk_fetch"
    /\ frame' = [frame EXCEPT ![p].pc = "gk_await", ![p].loaded = loadKeys(source)]
    /\ ev' = Event("getKeys", p, frame[p], "none", NoKey, FALSE)
    /\ UNCHANGED <<envVars, source, poolVars, loadCount, deleteCalled, evicted, freshEvict,
                   calls>>

\* getKey resumes after the await of line 102.
GetKeyResume(p) ==
    /\ UNCHANGED streamVars
    /\ frame[p].pc = "gk_await"
    /\ getKeySelect(p, [frame[p] EXCEPT !.loaded = <<>>],
                    pushLoaded3(frame[p].loaded), pushLoaded4(frame[p].loaded), TRUE)
    /\ UNCHANGED <<envVars, source, loadCount, deleteCalled, evicted, freshEvict, calls>>

CallGetKey(p) ==
    /\ UNCHANGED streamVars
    /\ frame[p].pc = "idle"
    /\ calls < MaxCalls
    /\ \E type \in KeyType :
          getKey(p, IdleFrame, type, "top")
    /\ calls' = calls + 1
    /\ UNCHANGED <<envVars, source, deleteCalled, evicted>>

(***************************************************************************)
(* deleteKey.                                                              *)
(***************************************************************************)
\* deleteKey without the configuration test of line 130.
deleteKeyNoConfigTest(p, f0, key, ctx) ==
    LET f == [f0 EXCEPT !.key = key, !.ctx = ctx, !.since = evicted] IN
    /\ frame' = [frame EXCEPT ![p] = [f EXCEPT !.pc = "dk_fetch"]]
    /\ ev' = Event("deleteKey.fetch", p, f, "none", key, FALSE)

\* deleteKey lines 129-138, up to the await of the fetch.
deleteKey(p, f0, key, ctx) ==
    LET f == [f0 EXCEPT !.key = key, !.ctx = ctx, !.since = evicted] IN
    IF ~keyServerConfigured
    THEN /\ frame' = [frame EXCEPT ![p] = IF ctx = "top" THEN IdleFrame ELSE DoneFrame]
         /\ ev' = Event("deleteKey", p, f, "error", KeyServerNotConfigured, FALSE)
    ELSE /\ frame' = [frame EXCEPT ![p] = [f EXCEPT !.pc = "dk_fetch"]]
         /\ ev' = Event("deleteKey.fetch", p, f, "none", key, FALSE)

\* The key server answers POST /deleteKey: on success the key is gone from it.
KeyServerDeleteKey(p) ==
    /\ UNCHANGED streamVars
    /\ frame[p].pc = "dk_fetch"
    /\ \E success \in BOOLEAN :
          /\ frame' = [frame EXCEPT ![p].pc = "dk_await", ![p].success = success]
          /\ source' = IF success /\ frame[p].key \in Keys
                       THEN [source EXCEPT ![frame[p].key] = "absent"]
                       ELSE source
          /\ ev' = Event("deleteKey.server", p, frame[p],
                         IF success THEN "true" ELSE "false", frame[p].key, FALSE)
    /\ deleteCalled' = TRUE
    /\ UNCHANGED <<envVars, poolVars, loadCount, evicted, freshEvict, calls>>

\* deleteKeyPool resetting the pool only when the server reported success.
deleteKeyPoolOnSuccess(success) ==
    IF success
    THEN /\ gpt3keys'    = <<>>
         /\ gpt4keys'    = <<>>
         /\ initialized' = FALSE
    ELSE UNCHANGED poolVars

\* deleteKeyPool emptying the arrays but leaving initialized as it is.
deleteKeyPoolKeepFlag(success) ==
    /\ gpt3keys'    = <<>>
    /\ gpt4keys'    = <<>>
    /\ initialized' = initialized

\* deleteKey lines 139-142: the pool the call leaves behind.
deleteKeyPool(success) ==
    /\ gpt3keys'    = <<>>
    /\ gpt4keys'    = <<>>
    /\ initialized' = FALSE

\* deleteKey resumes after the await and returns response.success; inside
\* OpenAIStream the value reaches the await of line 161.
DeleteKeyResume(p) ==
    LET f       == frame[p]
        success == f.success
        kind    == IF success THEN "true" ELSE "false"
    IN
    /\ UNCHANGED streamVars
    /\ f.pc = "dk_await"
    /\ deleteKeyPool(success)
    /\ evicted' = IF success THEN evicted \cup {f.key} ELSE evicted
    /\ freshEvict' = success
    /\ frame' = [frame EXCEPT ![p] =
          IF f.ctx = "top"
          THEN IdleFrame
          ELSE [f EXCEPT !.pc = "dk_return", !.success = FALSE, !.since = {}]]
    /\ ev' = Event("deleteKey", p, f, kind, f.key, FALSE)
    /\ UNCHANGED <<envVars, source, loadCount, deleteCalled, calls>>

CallDeleteKey(p) ==
    /\ UNCHANGED streamVars
    /\ frame[p].pc = "idle"
    /\ calls < MaxCalls
    /\ \E key \in Keys :
          deleteKey(p, IdleFrame, key, "top")
    /\ calls' = calls + 1
    /\ UNCHANGED <<envVars, source, poolVars, loadCount, deleteCalled, evicted, freshEvict>>

(***************************************************************************)
(* OpenAIStream up to the construction of the output stream: lines 118-173.*)
(***************************************************************************)
UpstreamResponses == {"ok", "invalid_api_key", "other_code", "no_error_object"}

\* Lines 118-120: resolve the key, then issue the upstream call.
CallOpenAIStream(p) ==
    /\ UNCHANGED streamVars
    /\ frame[p].pc = "idle"
    /\ \E model \in Models, key \in {NoKey, CallerKey} :
          LET f == [IdleFrame EXCEPT !.model = model, !.ctx = "first",
                                     !.type = keyTypeOf(model)]
          IN  IF key = NoKey
              THEN getKey(p, f, keyTypeOf(model), "first")
              ELSE /\ frame' = [frame EXCEPT ![p] = [f EXCEPT !.pc = "up_fetch",
                                                               !.key = key]]
                   /\ ev' = Event("OpenAIStream", p, f, "key", key, FALSE)
                   /\ UNCHANGED <<poolVars, loadCount, freshEvict>>
    /\ calls' = calls
    /\ UNCHANGED <<envVars, source, deleteCalled, evicted>>

\* onResponse evicting and retrying on every answer that carries an error
\* object, whatever its code.
onResponseEvictAnyCode(p, f, resp) ==
    IF resp = "ok"
    THEN /\ frame' = [frame EXCEPT ![p] = DoneFrame]
         /\ ev' = Event("OpenAIStream", p, f, "stream", f.key, FALSE)
    ELSE IF resp \in {"invalid_api_key", "other_code"}
    THEN deleteKey(p, f, f.key, "retry")
    ELSE /\ frame' = [frame EXCEPT ![p] = DoneFrame]
         /\ ev' = Event("OpenAIStream", p, f, "error", "UpstreamError", FALSE)

\* Lines 155-173: what the relay does with the upstream's answer.
onResponse(p, f, resp) ==
    IF resp = "ok"
    THEN /\ frame' = [frame EXCEPT ![p] = DoneFrame]
         /\ ev' = Event("OpenAIStream", p, f, "stream", f.key, FALSE)
    ELSE IF resp = "invalid_api_key"
    THEN deleteKey(p, f, f.key, "retry")
    ELSE LET err == IF resp = "other_code" THEN "OpenAIError" ELSE "UpstreamError" IN
         /\ frame' = [frame EXCEPT ![p] = DoneFrame]
         /\ ev' = Event("OpenAIStream", p, f, "error", err, FALSE)

\* The upstream answers the call issued with frame[p].key.
UpstreamRespond(p) ==
    /\ UNCHANGED streamVars
    /\ frame[p].pc = "up_fetch"
    /\ \E resp \in UpstreamResponses :
          /\ resp = "invalid_api_key" => frame[p].attempts < MaxAttempts
          /\ onResponse(p, [frame[p] EXCEPT !.attempts = IF resp = "invalid_api_key"
                                                         THEN @ + 1 ELSE @,
                                            !.resp = resp],
                        resp)
    /\ UNCHANGED <<envVars, source, poolVars, loadCount, deleteCalled, evicted, freshEvict,
                   calls>>

\* Line 162: key = await KeyStore.getKey(), after deleteKey has returned.
RetryGetKey(p) ==
    /\ UNCHANGED streamVars
    /\ frame[p].pc = "dk_return"
    /\ getKey(p, frame[p], HIGHEST, "retry")
    /\ UNCHANGED <<envVars, source, deleteCalled, evicted, calls>>

(***************************************************************************)
(* The specification of the pool.                                          *)
(***************************************************************************)
vars == <<OPENAI_API_KEY, keyServerConfigured, source, initialized, gpt3keys, gpt4keys,
          frame, ev, loadCount, deleteCalled, evicted, freshEvict, calls,
          events, upstream, upstreamEnd, stream, started, cancelled>>

keyStoreVars == <<OPENAI_API_KEY, keyServerConfigured, source, initialized, gpt3keys,
                  gpt4keys, frame, ev, loadCount, deleteCalled, evicted, freshEvict,
                  calls>>

\* new ReadableStream(...): readable, nothing queued, no read pending.  The
\* fields after partial observe the run: records handed to onParse so far, the
\* index of the first record that failed to parse while the stream was
\* streaming (0: none), and whether a chunk was emitted after that record.
NewStream ==
    [state |-> "readable", queue |-> <<>>, closeRequested |-> FALSE, pending |-> FALSE,
     delivered |-> <<>>, partial |-> <<>>,
     parsed |-> 0, malformedAt |-> 0, lateEmit |-> FALSE]

\* No relay has built an output stream.
NoStream ==
    /\ events = <<>>
    /\ upstream = <<>>
    /\ upstreamEnd = "eof"
    /\ stream = NewStream
    /\ started = "running"
    /\ cancelled = FALSE

Init ==
    /\ OPENAI_API_KEY \in {NoKey, OverrideKey}
    /\ keyServerConfigured \in BOOLEAN
    /\ source \in [Keys -> {"gpt-3", "gpt-4", "absent"}]
    /\ initialized = FALSE
    /\ gpt3keys = <<>>
    /\ gpt4keys = <<>>
    /\ frame = [p \in Procs |-> IdleFrame]
    /\ ev = NoEvent
    /\ loadCount = 0
    /\ deleteCalled = FALSE
    /\ evicted = {}
    /\ freshEvict = FALSE
    /\ calls = 0
    /\ NoStream

\* Requests that use the pool directly, as the models handler does.
Next ==
    \E p \in Procs :
        \/ CallGetKey(p)
        \/ KeyServerGetKeys(p)
        \/ GetKeyResume(p)
        \/ CallDeleteKey(p)
        \/ KeyServerDeleteKey(p)
        \/ DeleteKeyResume(p)

Spec == Init /\ [][Next]_vars

(***************************************************************************)
(* Properties of the pool.                                                 *)
(***************************************************************************)
Loading(p) == frame[p].pc \in {"gk_fetch", "gk_await"}

NoOverride == OPENAI_API_KEY = NoKey

\* The step is a direct getKey call (it returns at once or suspends in its load).
GetKeyCalled == calls' = calls + 1 /\ ev'.op \in {"getKey", "loadKeys"}

\* The step is request p's deleteKey resuming with the server's answer.
DeleteKeyReturns(p) == frame[p].pc = "dk_await" /\ frame'[p].pc # "dk_await"

\* C1: with no override, and no evict so far, getKey calls that overlap while
\* the pool is uninitialized issue one load between them: at no time are two
\* loads of two calls in flight (stated for a pool loaded from the key
\* server, where the await of the load is a network round trip).
C1_ExactlyOneLoad ==
    (NoOverride /\ keyServerConfigured /\ ~deleteCalled) =>
        \A p, q \in Procs : (Loading(p) /\ Loading(q)) => p = q

\* C2: with no override, a key whose deleteKey has returned true is never
\* returned by a getKey invoked after that return, and as long as no getKey
\* was invoked since that return the pool is uninitialized, so that the first
\* one reloads.
C2_EvictedNeverReturned ==
    NoOverride =>
        /\ (ev.op = "getKey" /\ ev.kind = "key") => ~ev.stale
        /\ freshEvict => ~initialized

\* C7: while OPENAI_API_KEY is set, every getKey call, whatever its type
\* argument, returns that key at once, issues no load and leaves gpt3keys,
\* gpt4keys and initialized as they are.
C7_OverrideBypassesPool ==
    [][(~NoOverride /\ GetKeyCalled) =>
          /\ ev'.op = "getKey" /\ ev'.kind = "key" /\ ev'.val = OPENAI_API_KEY
          /\ ~ev'.load
          /\ UNCHANGED <<poolVars, loadCount, source>>]_vars

C7_Witness ==
    /\ ~NoOverride
    /\ ev.op = "getKey" /\ ev.ctx = "top" /\ ev.type = GPT3
    /\ ev.val = OPENAI_API_KEY
    /\ \E k \in Keys : source[k] = "gpt-3"
    /\ calls >= 2

\* C8: with no override, getKey(HIGHEST) returns a member of gpt4keys whenever
\* gpt4keys is non-empty once any load has been pushed, whatever gpt3keys
\* holds; a key outside gpt4keys is returned only when gpt4keys is empty.
C8_HighestPrefersPremium ==
    (NoOverride /\ ev.op = "getKey" /\ ev.type = HIGHEST /\ ev.kind = "key") =>
        /\ Len(gpt4keys) > 0 => ev.val \in Range(gpt4keys)
        /\ ev.val \notin Range(gpt4keys) =>
              (Len(gpt4keys) = 0 /\ ev.val \in Range(gpt3keys))

C8_Witness ==
    /\ NoOverride
    /\ ev.op = "getKey" /\ ev.type = HIGHEST /\ ev.kind = "key"
    /\ Len(gpt3keys) > 0 /\ Len(gpt4keys) > 0
    /\ ev.val \in Range(gpt4keys)

\* The set a call of the given type draws from, after fallback.
EffectiveSet(type) ==
    CASE type = GPT3    -> IF gpt3keys # <<>> THEN gpt3keys ELSE gpt4keys
      [] type = HIGHEST -> IF gpt4keys # <<>> THEN gpt4keys ELSE gpt3keys
      [] OTHER          -> gpt4keys

\* C9: with no override, getKey(GPT3) returns a member of gpt3keys when it is
\* non-empty and else a member of gpt4keys; every getKey returns a member of
\* the set it draws from, and throws "No keys available" exactly when that
\* set, after fallback, is empty.
C9_StandardPreferredAndFailure ==
    (NoOverride /\ ev.op = "getKey") =>
        /\ ev.kind \in {"key", "error"}
        /\ ev.kind = "key" => ev.val \in Range(EffectiveSet(ev.type))
        /\ ev.kind = "error" <=> EffectiveSet(ev.type) = <<>>
        /\ ev.kind = "error" => ev.val = NoCredentialsAvailable

C9_Witness ==
    /\ NoOverride
    /\ ev.op = "getKey" /\ ev.type = GPT3 /\ ev.kind = "key"
    /\ gpt3keys = <<>>
    /\ ev.val \in Range(gpt4keys)

\* C10 as stated: deleteKey returns true exactly when the key server reports
\* success, resets the pool only then, and on a reported failure leaves
\* gpt3keys, gpt4keys and initialized as they were.
C10_ResetOnlyOnSuccess ==
    [][\A p \in Procs : DeleteKeyReturns(p) =>
          /\ ev'.kind = "true" <=> frame[p].success
          /\ frame[p].success =>
                (gpt3keys' = <<>> /\ gpt4keys' = <<>> /\ initialized' = FALSE)
          /\ ~frame[p].success => UNCHANGED poolVars]_vars

\* C10 amended: deleteKey returns true exactly when the key server reports
\* success; whatever the server reports, the call empties gpt3keys and
\* gpt4keys and resets initialized to false.
C10_ResetOnEveryAnswer ==
    [][\A p \in Procs : DeleteKeyReturns(p) =>
          /\ ev'.op = "deleteKey"
          /\ ev'.kind = "true" <=> frame[p].success
          /\ ev'.kind = "false" <=> ~frame[p].success
          /\ gpt3keys' = <<>> /\ gpt4keys' = <<>> /\ initialized' = FALSE]_vars

\* A deleteKey answered with failure has returned false on an initialized pool.
C10_Witness ==
    /\ ev.op = "deleteKey" /\ ev.kind = "false" /\ ev.before
    /\ gpt3keys = <<>> /\ gpt4keys = <<>> /\ ~initialized

\* The step is a direct deleteKey call (it throws at once or suspends in its
\* fetch).
DeleteKeyCalled == calls' = calls + 1 /\ ev'.op \in {"deleteKey", "deleteKey.fetch"}

\* C11: while no key server is configured, every deleteKey call throws "Key
\* server not configured" at once: no request to a key server is issued or
\* in flight, and gpt3keys, gpt4keys, initialized and the source are left as
\* they are.
C11_EvictNeedsKeyServer ==
    [][(~keyServerConfigured /\ DeleteKeyCalled) =>
          /\ ev'.op = "deleteKey" /\ ev'.kind = "error"
          /\ ev'.val = KeyServerNotConfigured
          /\ \A p \in Procs : frame'[p].pc \notin {"dk_fetch", "dk_await"}
          /\ UNCHANGED <<poolVars, source, deleteCalled, evicted, loadCount>>]_vars

\* deleteKey has thrown on a pool that is loaded from the local file.
C11_Witness ==
    /\ ~keyServerConfigured
    /\ ev.op = "deleteKey" /\ ev.kind = "error" /\ ev.val = KeyServerNotConfigured
    /\ initialized /\ ev.before
    /\ Len(gpt3keys) + Len(gpt4keys) > 0
    /\ ~deleteCalled

\* Request p's deleteKey was invoked for a key that an earlier deleteKey had
\* already removed (that call had returned true).
SecondEvict(p) ==
    /\ frame[p].pc \in {"dk_fetch", "dk_await"}
    /\ frame[p].key \in frame[p].since

\* The key server answers request p's deleteKey.
KeyServerAnswers(p) == frame[p].pc = "dk_fetch" /\ frame'[p].pc = "dk_await"

\* C12: a deleteKey for a key that an earlier deleteKey already removed does
\* not throw and corrupts nothing: the key server's store is left as it was,
\* the call returns what the server answered, and it leaves the pool exactly
\* as a single deleteKey leaves it (both arrays empty, initialized false,
\* the same keys evicted), so that a getKey that follows loads the same
\* source as after one deleteKey.
C12_SecondEvictIdempotent ==
    [][\A p \in Procs : SecondEvict(p) =>
          /\ KeyServerAnswers(p) => source' = source
          /\ DeleteKeyReturns(p) =>
                /\ ev'.op = "deleteKey" /\ ev'.kind \in {"true", "false"}
                /\ ev'.kind = "true" <=> frame[p].success
                /\ gpt3keys' = <<>> /\ gpt4keys' = <<>> /\ initialized' = FALSE
                /\ evicted' = evicted /\ source' = source
                /\ source[frame[p].key] = "absent"]_vars

\* A key was evicted, the pool was reloaded by a getKey, and a second
\* deleteKey for the same key has returned.
C12_Witness ==
    /\ ev.op = "deleteKey" /\ ev.stale /\ ev.before
    /\ ev.val \in evicted
    /\ gpt3keys = <<>> /\ gpt4keys = <<>> /\ ~initialized
    /\ \E k \in Keys : source[k] # "absent"

\* No element occurs twice in the sequence.
NoDuplicates(s) == \A i, j \in 1..Len(s) : s[i] = s[j] => i = j

\* C14: every key occurs at most once in gpt3keys and gpt4keys taken
\* together (the source holds each key once, with one type).
C14_KeysOccurOnce == NoDuplicates(gpt3keys \o gpt4keys)

\* getKey calls made one after the other: a call is made, and a load is
\* answered and resumed, only while no other request is inside a call; and
\* no deleteKey call is made.
NoOtherCall(p) == \A q \in Procs \ {p} : frame[q].pc = "idle"

SequentialNext ==
    \E p \in Procs :
        /\ NoOtherCall(p)
        /\ \/ CallGetKey(p)
           \/ KeyServerGetKeys(p)
           \/ GetKeyResume(p)

SequentialSpec == Init /\ [][SequentialNext]_vars

\* C13: with no override, in a run of getKey calls that do not overlap and
\* with no deleteKey call, the source is loaded at most once whatever types
\* are requested and whether the calls return a key or throw: the first call
\* loads, and no later call issues a second load.
C13_LoadedExactlyOnce ==
    NoOverride => loadCount <= 1

\* Requests that go through OpenAIStream, one call each.
RelayNext ==
    \E p \in Procs :
        \/ CallOpenAIStream(p)
        \/ UpstreamRespond(p)
        \/ RetryGetKey(p)
        \/ KeyServerGetKeys(p)
        \/ GetKeyResume(p)
        \/ KeyServerDeleteKey(p)
        \/ DeleteKeyResume(p)

RelaySpec == Init /\ [][RelayNext]_vars

(***************************************************************************)
(* Properties of the relay's evict-and-retry step.                         *)
(***************************************************************************)
\* C3: an upstream answer of invalid_api_key never becomes an error of the
\* caller while a replacement key exists: the only error that ends the
\* relay's evict-and-retry step is "No keys available", thrown when both
\* arrays are empty.
C3_AuthFailureOnlyExhaustion ==
    (ev.op \in {"getKey", "deleteKey"} /\ ev.ctx = "retry" /\ ev.kind = "error") =>
        /\ ev.val = NoCredentialsAvailable
        /\ gpt3keys = <<>> /\ gpt4keys = <<>>

\* C16: the deleteKey call of the relay's retry step is best-effort: when it
\* fails, by returning false or by throwing "Key server not configured",
\* the relay goes on to acquire a new key; the failure of deleteKey is never
\* the error that ends the relay.
C16_EvictionBestEffort ==
    (ev.op = "deleteKey" /\ ev.ctx = "retry") =>
        /\ ev.kind # "error"
        /\ \E p \in Procs : frame[p].pc = "dk_return" /\ frame[p].key = ev.val

\* The upstream answers request p's call.
UpstreamAnswers(p) == frame[p].pc = "up_fetch" /\ frame'[p].pc # "up_fetch"

FatalResponses == {"other_code", "no_error_object"}

\* C17: when the upstream answers with a non-200 status whose error code is
\* not invalid_api_key, or with no error object, OpenAIStream throws at once
\* (the OpenAIError, or the generic upstream error): deleteKey and getKey are
\* not called, no further upstream call is issued, and gpt3keys, gpt4keys and
\* initialized are left as they are.
C17_FatalUpstreamError ==
    [][\A p \in Procs : (UpstreamAnswers(p) /\ ev'.resp \in FatalResponses) =>
          /\ ev'.op = "OpenAIStream" /\ ev'.kind = "error"
          /\ ev'.val = (IF ev'.resp = "other_code" THEN "OpenAIError"
                                                  ELSE "UpstreamError")
          /\ frame'[p].pc = "done"
          /\ UNCHANGED <<poolVars, source, loadCount, deleteCalled, evicted>>]_vars

\* The relay has thrown the upstream's error on a loaded pool.
C17_Witness ==
    /\ ev.op = "OpenAIStream" /\ ev.kind = "error" /\ ev.resp = "other_code"
    /\ ev.val = "OpenAIError"
    /\ initialized /\ Len(gpt4keys) > 0
    /\ keyServerConfigured

\* C18: the evict-and-retry loop makes progress towards exhaustion in every
\* configuration, a static OPENAI_API_KEY included: where every deleteKey
\* removes the rejected key, the key a retry obtains is never one that had
\* been evicted before that retry asked for it, so that the attempts are
\* bounded by the number of keys and the loop ends with "No keys available".
C18_RetryTerminatesOnExhaustion ==
    (~NoOverride /\ keyServerConfigured
        /\ ev.op = "getKey" /\ ev.ctx = "retry" /\ ev.kind = "key") => ~ev.stale

\* C20: every getKey call OpenAIStream makes for a request, the first one and
\* the one of every retry, asks for the type derived from the request's
\* model: GPT4 for gpt-4 and GPT3 for any other model, never HIGHEST.
C20_TierFollowsModel ==
    (ev.op \in {"getKey", "loadKeys", "getKeys"} /\ ev.ctx \in {"first", "retry"}) =>
        ev.type = keyTypeOf(ev.model)

(***************************************************************************)
(* The output stream of OpenAIStream: lines 152-153 and 175-204.           *)
(*                                                                         *)
(* Text is a sequence of characters: "a" takes one byte in UTF-8, "w" two  *)
(* ("w1", "w2"), and "r" is U+FFFD, three bytes.  A record of the event    *)
(* stream is its data followed by the terminator "NL"; the data is "D"     *)
(* and the content for a delta, "F" for a finish reason, and "X" for data  *)
(* that is not JSON.                                                       *)
(***************************************************************************)
Texts == {<<>>, <<"a">>, <<"w">>}

Delta(text) == [kind |-> "delta", text |-> text]
Finish      == [kind |-> "finish", text |-> <<>>]
Malformed   == [kind |-> "malformed", text |-> <<>>]
UpstreamEvent == {Delta(t) : t \in Texts} \cup {Finish, Malformed}

RECURSIVE SeqsUpTo(_, _)
SeqsUpTo(S, n) ==
    IF n = 0 THEN {<<>>}
    ELSE LET shorter == SeqsUpTo(S, n - 1)
         IN  shorter \cup {Append(q, x) : q \in shorter, x \in S}

\* encoder.encode(text): UTF-8.
RECURSIVE encode(_)
encode(text) ==
    IF text = <<>> THEN <<>>
    ELSE (CASE Head(text) = "w" -> <<"w1", "w2">>
            [] Head(text) = "r" -> <<"r1", "r2", "r3">>
            [] OTHER            -> <<Head(text)>>) \o encode(Tail(text))

\* decoder.decode(chunk), each chunk decoded on its own: a two-byte character
\* cut by the end of the chunk, or a continuation byte without its lead byte,
\* decodes to U+FFFD.
RECURSIVE decode(_)
decode(bytes) ==
    IF bytes = <<>> THEN <<>>
    ELSE IF Head(bytes) = "w1"
    THEN IF Len(bytes) >= 2 /\ bytes[2] = "w2"
         THEN <<"w">> \o decode(SubSeq(bytes, 3, Len(bytes)))
         ELSE <<"r">> \o decode(Tail(bytes))
    ELSE IF Head(bytes) = "w2"
    THEN <<"r">> \o decode(Tail(bytes))
    ELSE <<Head(bytes)>> \o decode(Tail(bytes))

\* The bytes of one record, and of a body, as the upstream sends them.
Record(e) ==
    (CASE e.kind = "delta"  -> <<"D">> \o encode(e.text)
       [] e.kind = "finish" -> <<"F">>
       [] OTHER             -> <<"X">>) \o <<"NL">>

RECURSIVE Body(_)
Body(es) == IF es = <<>> THEN <<>> ELSE Record(Head(es)) \o Body(Tail(es))

\* Lines 182-187: JSON.parse(data) and the fields read from it.
parse(data) ==
    IF data # <<>> /\ Head(data) = "D" THEN Delta(Tail(data))
    ELSE IF data = <<"F">> THEN Finish
    ELSE [kind |-> "throw", text |-> <<>>]

\* The stream controller (ReadableStreamDefaultController).
CanCloseOrEnqueue(st) == ~st.closeRequested /\ st.state = "readable"

Streaming(st) == CanCloseOrEnqueue(st)

\* controller.error(e): nothing unless the stream is readable; else what is
\* queued is dropped and a pending read is rejected.
controllerError(st) ==
    IF st.state # "readable" THEN st
    ELSE [st EXCEPT !.state = "errored", !.queue = <<>>, !.pending = FALSE]

\* controller.close(), called when CanCloseOrEnqueue: the stream closes once
\* the queue is empty.
controllerClose(st) ==
    IF st.queue = <<>>
    THEN [st EXCEPT !.closeRequested = TRUE, !.state = "closed", !.pending = FALSE]
    ELSE [st EXCEPT !.closeRequested = TRUE]

\* controller.enqueue(chunk), called when CanCloseOrEnqueue: a pending read
\* takes the chunk at once, else it is queued.
controllerEnqueue(st, chunk) ==
    IF st.pending
    THEN [st EXCEPT !.pending = FALSE, !.delivered = @ \o chunk]
    ELSE [st EXCEPT !.queue = Append(@, chunk)]

\* onParse whose catch block swallows the error.
onParseSwallow(st, data) ==
    LET json == parse(data) IN
    IF json.kind = "throw" THEN st
    ELSE IF json.kind = "finish"
    THEN (IF CanCloseOrEnqueue(st) THEN controllerClose(st) ELSE st)
    ELSE (IF CanCloseOrEnqueue(st)
          THEN controllerEnqueue(st, encode(json.text))
          ELSE st)

\* onParse, lines 177-194.  close() and enqueue() throw a TypeError unless
\* CanCloseOrEnqueue; whatever the try block throws goes to controller.error.
onParse(st, data) ==
    LET json == parse(data) IN
    IF json.kind = "throw" THEN controllerError(st)
    ELSE IF json.kind = "finish"
    THEN (IF CanCloseOrEnqueue(st) THEN controllerClose(st) ELSE controllerError(st))
    ELSE (IF CanCloseOrEnqueue(st)
          THEN controllerEnqueue(st, encode(json.text))
          ELSE controllerError(st))

\* One record reaches onParse; the observation fields are brought up to date.
dispatch(st, data) ==
    LET after   == onParse(st, data)
        emitted == Len(after.queue) > Len(st.queue)
                   \/ Len(after.delivered) > Len(st.delivered)
                   \/ (parse(data).kind = "delta" /\ after.pending # st.pending)
    IN  [after EXCEPT
            !.parsed      = st.parsed + 1,
            !.malformedAt = IF st.malformedAt = 0 /\ Streaming(st)
                               /\ parse(data).kind = "throw"
                            THEN st.parsed + 1 ELSE st.malformedAt,
            !.lateEmit    = st.lateEmit \/ (st.malformedAt > 0 /\ emitted)]

\* parser.feed(text): every record completed by the text goes to onParse, in
\* order; an incomplete record stays in the parser.
RECURSIVE feed(_, _)
feed(st, text) ==
    IF text = <<>> THEN st
    ELSE IF Head(text) = "NL"
    THEN feed(dispatch([st EXCEPT !.partial = <<>>], st.partial), Tail(text))
    ELSE feed([st EXCEPT !.partial = Append(@, Head(text))], Tail(text))

\* Lines 198-200: one turn of the loop over res.body.
ReadChunk ==
    /\ started = "running"
    /\ upstream # <<>>
    /\ \E n \in 1..MaxChunk :
          /\ n <= Len(upstream)
          /\ stream' = feed(stream, decode(SubSeq(upstream, 1, n)))
          /\ upstream' = SubSeq(upstream, n + 1, Len(upstream))
    /\ UNCHANGED <<events, upstreamEnd, started, cancelled, keyStoreVars>>

\* res.body ends: the loop is left and start() returns.
BodyEnds ==
    /\ started = "running"
    /\ upstream = <<>>
    /\ upstreamEnd = "eof"
    /\ started' = "returned"
    /\ UNCHANGED <<events, upstream, upstreamEnd, stream, cancelled, keyStoreVars>>

\* res.body fails: the loop throws, start() rejects, and the stream
\* implementation passes the reason to controller.error.
BodyFails ==
    /\ started = "running"
    /\ upstreamEnd = "error"
    /\ started' = "threw"
    /\ upstream' = <<>>
    /\ stream' = controllerError(stream)
    /\ UNCHANGED <<events, upstreamEnd, cancelled, keyStoreVars>>

\* The consumer calls read(): it takes the chunk at the head of the queue, or
\* waits for the next one.
Read ==
    /\ ~cancelled
    /\ stream.state = "readable"
    /\ ~stream.pending
    /\ stream' =
          IF stream.queue = <<>> THEN [stream EXCEPT !.pending = TRUE]
          ELSE [stream EXCEPT
                   !.queue = Tail(@),
                   !.delivered = @ \o Head(stream.queue),
                   !.state = IF stream.closeRequested /\ Len(stream.queue) = 1
                             THEN "closed" ELSE @]
    /\ UNCHANGED <<events, upstream, upstreamEnd, started, cancelled, keyStoreVars>>

\* The consumer cancels the stream: it closes and drops what is queued.  The
\* underlying source defines no cancel(), so nothing reaches the producer.
Cancel ==
    /\ ~cancelled
    /\ stream.state = "readable"
    /\ stream' = [stream EXCEPT !.state = "closed", !.queue = <<>>, !.pending = FALSE]
    /\ cancelled' = TRUE
    /\ UNCHANGED <<events, upstream, upstreamEnd, started, keyStoreVars>>

\* The pool is not used while the output stream runs.
KeyStoreIdle ==
    /\ OPENAI_API_KEY = NoKey
    /\ keyServerConfigured = TRUE
    /\ source = [k \in Keys |-> "absent"]
    /\ initialized = FALSE
    /\ gpt3keys = <<>>
    /\ gpt4keys = <<>>
    /\ frame = [p \in Procs |-> IdleFrame]
    /\ ev = NoEvent
    /\ loadCount = 0
    /\ deleteCalled = FALSE
    /\ evicted = {}
    /\ freshEvict = FALSE
    /\ calls = 0

StreamInit ==
    /\ KeyStoreIdle
    /\ events \in SeqsUpTo(UpstreamEvent, MaxEvents)
    /\ upstream = Body(events)
    /\ upstreamEnd \in {"eof", "error"}
    /\ stream = NewStream
    /\ started = "running"
    /\ cancelled = FALSE

StreamNext ==
    \/ ReadChunk
    \/ BodyEnds
    \/ BodyFails
    \/ Read
    \/ Cancel

StreamSpec == StreamInit /\ [][StreamNext]_vars

(***************************************************************************)
(* Properties of the output stream.                                        *)
(***************************************************************************)
IsPrefix(s, t) == Len(s) <= Len(t) /\ s = SubSeq(t, 1, Len(s))

\* The body is well-formed delta records followed by one finish record, and
\* it ends without a transport error.
DeltasThenFinish ==
    /\ events # <<>>
    /\ events[Len(events)] = Finish
    /\ \A i \in 1..(Len(events) - 1) : events[i].kind = "delta"
    /\ upstreamEnd = "eof"

\* The UTF-8 bytes of the contents of the deltas before the first finish.
RECURSIVE ContentBytes(_)
ContentBytes(es) ==
    IF es = <<>> \/ Head(es).kind # "delta" THEN <<>>
    ELSE encode(Head(es).text) \o ContentBytes(Tail(es))

\* C4: once the producer has stopped (the body, of at least one record, has
\* ended or failed) and nothing is left in the queue, the output stream is
\* closed or errored: no consumer is left waiting on a readable stream that
\* nothing will ever close.
C4_ReachesTerminalState ==
    (started # "running" /\ stream.queue = <<>> /\ stream.parsed > 0) =>
        stream.state \in {"closed", "errored"}

\* C5: for a body of well-formed deltas followed by a finish record, what the
\* consumer has read is at every moment a prefix of the concatenated delta
\* contents, and when the producer has returned and the queue is drained the
\* consumer has read exactly those bytes and the stream is closed.
C5_ExactConcatenation ==
    (DeltasThenFinish /\ ~cancelled) =>
        /\ IsPrefix(stream.delivered, ContentBytes(events))
        /\ (started = "returned" /\ stream.queue = <<>>) =>
              (stream.delivered = ContentBytes(events) /\ stream.state = "closed")

\* C6: once a record that is not valid JSON has arrived while the stream was
\* streaming, the stream is errored and no chunk of a later record has been
\* emitted on it.
C6_MalformedStopsOutput ==
    stream.malformedAt > 0 => (stream.state = "errored" /\ ~stream.lateEmit)

\* A delta record has reached onParse after the malformed one.
C6_Witness ==
    /\ stream.malformedAt > 0
    /\ stream.state = "errored"
    /\ \E i \in (stream.malformedAt + 1)..stream.parsed :
          events[i].kind = "delta" /\ events[i].text # <<>>
    /\ \E i \in 1..(stream.malformedAt - 1) : events[i].kind = "delta"

\* The chunks of the queue, concatenated.
RECURSIVE Flatten(_)
Flatten(q) == IF q = <<>> THEN <<>> ELSE Head(q) \o Flatten(Tail(q))

\* The step is a turn of the loop over res.body: records may reach onParse.
ChunkFed == started' = started /\ upstream' # upstream

\* C15: the terminal states are absorbing.  Once a finish record has closed
\* the stream (controller.close() has been called), no record that arrives
\* later errors the stream or discards a chunk that was emitted before the
\* finish and is not yet read; and once the stream is errored, nothing
\* closes it or emits on it.
C15_TerminalStatesAbsorbing ==
    [][/\ (stream.closeRequested /\ ChunkFed) =>
             /\ stream'.state # "errored"
             /\ stream'.delivered \o Flatten(stream'.queue)
                   = stream.delivered \o Flatten(stream.queue)
       /\ stream.state = "errored" =>
             /\ stream'.state = "errored"
             /\ stream'.delivered = stream.delivered
             /\ stream'.queue = <<>>]_vars

\* C19: once the consumer has cancelled the output stream, the producer
\* stops: the loop over res.body takes no further chunk from the body and
\* nothing more is fed to the parser (no byte joins the pending record and
\* no record reaches onParse).
C19_CancelStopsProducer ==
    [][cancelled =>
          /\ ~ChunkFed
          /\ stream'.partial = stream.partial
          /\ stream'.parsed = stream.parsed]_vars

====
